---- MODULE Spec2Model ----
(***************************************************************************)
(* The heterogeneous data-source gateway of MCP/cdata-server/src/index.ts: *)
(* the descriptor registry (CDataMCPServer.dataSources), the dispatcher    *)
(* (the CallToolRequestSchema handler and handleToolCall) and the          *)
(* connectors behind it (querySql, fetchApiData, readCsv, readJson,        *)
(* createSampleDatabase, transformData).                                   *)
(*                                                                         *)
(* One step of the model is one turn of the Node event loop: the           *)
(* synchronous part of a handler up to its first suspension point, or one  *)
(* callback / stream event delivered to a suspended invocation.            *)
(***************************************************************************)
EXTENDS Integers, Sequences, FiniteSets, TLC

VARIABLES
    dataSources,  \* this.dataSources: the Map, as its entries in insertion order
    files,        \* the file system: path -> file (an external collaborator)
    calls,        \* the invocations in flight: call id -> invocation state
    uncaught,     \* errors that left the process as uncaught 'error' events
    postman       \* the Postman server: the remote collection and its invocations

vars == <<dataSources, files, calls, uncaught, postman>>

----------------------------------------------------------------------------
(* JavaScript values the arguments can take *)

\* a string argument the caller left out (undefined)
NoArg == "<undefined>"

\* !s for a string-or-undefined value: undefined and "" are falsy
Falsy(s) == s \in {NoArg, ""}

\* an optional non-string value: <<>> is undefined, <<v>> is v
None == <<>>
Some(v) == <<v>>

\* arguments: undefined (request.params.arguments left out)
NoArgs == [present |-> FALSE]

----------------------------------------------------------------------------
(* Errors.  The code throws plain Error objects that differ only in their  *)
(* message; msg is the message template, about the value put into it.      *)

Err(msg, about) == [msg |-> msg, about |-> about]

\* new McpError(ErrorCode.MethodNotFound, `Unknown tool: ${toolName}`)
UnknownToolError(toolName) == Err("Unknown tool", toolName)
\* reading a property of undefined or null
TypeError(about) == Err("TypeError", about)

----------------------------------------------------------------------------
(* The promise returned by handleToolCall and the envelope the             *)
(* CallToolRequestSchema handler makes of it.                              *)

Pending == [state |-> "pending"]
Fulfilled(result) == [state |-> "fulfilled", result |-> result]
Rejected(error) == [state |-> "rejected", error |-> error]

NoResponse == [sent |-> FALSE]

\* the try / catch of the CallToolRequestSchema handler
Envelope(outcome) ==
    IF outcome.state = "fulfilled"
    THEN [sent |-> TRUE, isError |-> FALSE, text |-> outcome.result]
    ELSE [sent |-> TRUE, isError |-> TRUE, text |-> outcome.error]

----------------------------------------------------------------------------
(* The file system.  A file is absent, or holds a SQLite database, a CSV   *)
(* text or a JSON text.                                                    *)

Absent == [kind |-> "absent"]

\* fs.existsSync(path)
existsSync(fs, path) == path \in DOMAIN fs /\ fs[path].kind # "absent"

----------------------------------------------------------------------------
(* The descriptor registry: this.dataSources, a Map keyed by name.         *)

\* this.dataSources.has(name)
Has(ds, name) == \E i \in DOMAIN ds : ds[i].name = name

\* this.dataSources.get(name), for a name the Map has
Get(ds, name) == ds[CHOOSE i \in DOMAIN ds : ds[i].name = name]

\* a registry that holds one descriptor only: set evicts what was stored
MapSetEvicts(ds, name, dataSource) == <<dataSource>>

\* this.dataSources.set(name, dataSource): a new key goes last, an existing
\* key keeps its place and takes the new value
MapSet(ds, name, dataSource) ==
    IF Has(ds, name)
    THEN [i \in DOMAIN ds |-> IF ds[i].name = name THEN dataSource ELSE ds[i]]
    ELSE Append(ds, dataSource)

\* config as the caller passes it: undefined, or an object whose path, url
\* and headers are each present or left out
NoConfig == [defined |-> FALSE, path |-> NoArg, url |-> NoArg, headers |-> NoArg]
Config(path, url, headers) ==
    [defined |-> TRUE, path |-> path, url |-> url, headers |-> headers]

FileKinds == {"sqlite", "csv", "json"}

\* ValidateConfig without the fs.existsSync check
ValidateConfigNoExists(fs, type, config) ==
    IF type \in FileKinds
    THEN IF ~config.defined THEN Some(TypeError("config.path"))
         ELSE IF Falsy(config.path) THEN Some(Err("'path' is required", type))
         ELSE None
    ELSE IF type = "api"
    THEN IF ~config.defined THEN Some(TypeError("config.url"))
         ELSE IF Falsy(config.url) THEN Some(Err("'url' is required", "api"))
         ELSE None
    ELSE None

\* the switch of registerDataSource: the error the validation throws, or
\* None when the configuration passes
ValidateConfig(fs, type, config) ==
    IF type \in FileKinds
    THEN IF ~config.defined THEN Some(TypeError("config.path"))
         ELSE IF Falsy(config.path) THEN Some(Err("'path' is required", type))
         ELSE IF ~existsSync(fs, config.path)
              THEN Some(Err("File not found", config.path))
         ELSE None
    ELSE IF type = "api"
    THEN IF ~config.defined THEN Some(TypeError("config.url"))
         ELSE IF Falsy(config.url) THEN Some(Err("'url' is required", "api"))
         ELSE None
    ELSE None

\* registerDataSource answering a duplicate name with the success of the
\* first registration, without storing anything
registerDataSourceIdempotent(ds, fs, name, type, config) ==
    LET invalid == ValidateConfig(fs, type, config) IN
    IF invalid # None
    THEN [dataSources |-> ds, outcome |-> Rejected(invalid[1])]
    ELSE [dataSources |->
              IF Has(ds, name) THEN ds
              ELSE MapSet(ds, name, [type |-> type, name |-> name, config |-> config]),
          outcome |-> Fulfilled(
              [success |-> TRUE,
               message |-> "registered successfully",
               dataSource |-> [name |-> name, type |-> type, config |-> config]])]

\* registerDataSource storing the descriptor before it validates the config:
\* a registration that fails its validation leaves its descriptor behind
registerDataSourceStoresFirst(ds, fs, name, type, config) ==
    LET invalid == ValidateConfig(fs, type, config)
        stored == MapSet(ds, name, [type |-> type, name |-> name, config |-> config])
    IN IF Has(ds, name)
       THEN [dataSources |-> ds, outcome |-> Rejected(Err("already exists", name))]
       ELSE IF invalid # None
       THEN [dataSources |-> stored, outcome |-> Rejected(invalid[1])]
       ELSE [dataSources |-> stored,
             outcome |-> Fulfilled(
                 [success |-> TRUE,
                  message |-> "registered successfully",
                  dataSource |-> [name |-> name, type |-> type, config |-> config]])]

\* registerDataSource normalising the config it stores and returns: headers
\* left out become the empty set of headers
registerDataSourceDefaultsHeaders(ds, fs, name, type, config) ==
    LET invalid == ValidateConfig(fs, type, config)
        stored == IF config.defined /\ config.headers = NoArg
                  THEN [config EXCEPT !.headers = "{}"] ELSE config
    IN IF Has(ds, name)
       THEN [dataSources |-> ds, outcome |-> Rejected(Err("already exists", name))]
       ELSE IF invalid # None
       THEN [dataSources |-> ds, outcome |-> Rejected(invalid[1])]
       ELSE [dataSources |->
                 MapSet(ds, name, [type |-> type, name |-> name, config |-> stored]),
             outcome |-> Fulfilled(
                 [success |-> TRUE,
                  message |-> "registered successfully",
                  dataSource |-> [name |-> name, type |-> type, config |-> stored]])]

\* registerDataSource without the this.dataSources.has(name) check: the set
\* replaces the stored descriptor
registerDataSourceNoCheck(ds, fs, name, type, config) ==
    LET invalid == ValidateConfig(fs, type, config) IN
    IF invalid # None
    THEN [dataSources |-> ds, outcome |-> Rejected(invalid[1])]
    ELSE [dataSources |->
              MapSet(ds, name, [type |-> type, name |-> name, config |-> config]),
          outcome |-> Fulfilled(
              [success |-> TRUE,
               message |-> "registered successfully",
               dataSource |-> [name |-> name, type |-> type, config |-> config]])]

\* registerDataSource(name, type, config): the registry it leaves and the
\* promise it returns
registerDataSource(ds, fs, name, type, config) ==
    IF Has(ds, name)
    THEN [dataSources |-> ds, outcome |-> Rejected(Err("already exists", name))]
    ELSE LET invalid == ValidateConfig(fs, type, config) IN
         IF invalid # None
         THEN [dataSources |-> ds, outcome |-> Rejected(invalid[1])]
         ELSE [dataSources |->
                   MapSet(ds, name, [type |-> type, name |-> name, config |-> config]),
               outcome |-> Fulfilled(
                   [success |-> TRUE,
                    message |-> "registered successfully",
                    dataSource |-> [name |-> name, type |-> type, config |-> config]])]

\* listDataSources listing the newest descriptor first
listDataSourcesNewestFirst(ds) ==
    Fulfilled(
        [count |-> Len(ds),
         dataSources |->
             [i \in DOMAIN ds |->
                 [name |-> ds[Len(ds) + 1 - i].name,
                  type |-> ds[Len(ds) + 1 - i].type,
                  config |-> ds[Len(ds) + 1 - i].config]]])

\* listDataSources()
listDataSources(ds) ==
    Fulfilled(
        [count |-> Len(ds),
         dataSources |->
             [i \in DOMAIN ds |->
                 [name |-> ds[i].name, type |-> ds[i].type, config |-> ds[i].config]]])

\* transformData accepting the sources it could compute over, the relational
\* ones, and the declared operations only
transformDataChecksKind(ds, sourceName, operation, field) ==
    IF ~Has(ds, sourceName)
    THEN Rejected(Err("not found", sourceName))
    ELSE IF Get(ds, sourceName).type # "sqlite"
            \/ operation \notin {"count", "sum", "average", "group_by"}
    THEN Rejected(Err("cannot transform", sourceName))
    ELSE Fulfilled(
             [success |-> TRUE,
              message |-> "would be applied",
              operation |-> operation,
              field |-> field,
              note |-> "This is a demo"])

\* transformData returning its acknowledgement without the success field
transformDataNoSuccess(ds, sourceName, operation, field) ==
    IF ~Has(ds, sourceName)
    THEN Rejected(Err("not found", sourceName))
    ELSE Fulfilled(
             [message |-> "would be applied",
              operation |-> operation,
              field |-> field,
              note |-> "This is a demo"])

\* transformData(sourceName, operation, field)
transformData(ds, sourceName, operation, field) ==
    IF ~Has(ds, sourceName)
    THEN Rejected(Err("not found", sourceName))
    ELSE Fulfilled(
             [success |-> TRUE,
              message |-> "would be applied",
              operation |-> operation,
              field |-> field,
              note |-> "This is a demo"])

----------------------------------------------------------------------------
(* Invocations.                                                            *)

CallIds == {1, 2}

\* an invocation slot with no invocation in it
Idle ==
    [pc |-> "idle", tool |-> NoArg, args |-> NoArgs,
     outcome |-> Pending, response |-> NoResponse,
     conn |-> "none", queries |-> 0, closes |-> 0,
     requests |-> <<>>,
     stream |-> "none", pos |-> 0, records |-> <<>>,
     fileReads |-> 0, path |-> NoArg]

\* the process is running: an uncaught 'error' event ends it
Alive == uncaught = <<>>

\* the invocation in slot c, as the request arrives
Started(toolName, args) == [Idle EXCEPT !.pc = "running", !.tool = toolName, !.args = args]

\* a promise that could settle again: the last resolve or reject wins
SettleAgain(call, outcome) ==
    [call EXCEPT !.outcome = outcome, !.response = Envelope(outcome)]

\* the promise of handleToolCall settles: the CallToolRequestSchema handler
\* returns its envelope.  A promise settles once; a later resolve or reject
\* changes nothing.
Settle(call, outcome) ==
    IF call.outcome.state # "pending" THEN call
    ELSE [call EXCEPT !.outcome = outcome, !.response = Envelope(outcome)]

\* an invocation that ends in its synchronous part
Finished(toolName, args, outcome) ==
    [Settle(Started(toolName, args), outcome) EXCEPT !.pc = "done"]

\* case 'register_data_source'
RegisterDataSource(c, args) ==
    /\ Alive
    /\ calls[c].pc = "idle"
    /\ LET r == IF ~args.present
                THEN [dataSources |-> dataSources,
                      outcome |-> Rejected(TypeError("args.name"))]
                ELSE registerDataSource(dataSources, files,
                                        args.name, args.type, args.config)
       IN /\ dataSources' = r.dataSources
          /\ calls' = [calls EXCEPT
                 ![c] = Finished("register_data_source", args, r.outcome)]
    /\ UNCHANGED <<files, uncaught, postman>>

\* case 'list_data_sources'
ListDataSources(c, args) ==
    /\ Alive
    /\ calls[c].pc = "idle"
    /\ calls' = [calls EXCEPT
           ![c] = Finished("list_data_sources", args, listDataSources(dataSources))]
    /\ UNCHANGED <<dataSources, files, uncaught, postman>>

\* case 'transform_data'
TransformData(c, args) ==
    /\ Alive
    /\ calls[c].pc = "idle"
    /\ calls' = [calls EXCEPT
           ![c] = Finished("transform_data", args,
                      IF ~args.present
                      THEN Rejected(TypeError("args.sourceName"))
                      ELSE transformData(dataSources, args.sourceName,
                                         args.operation, args.field))]
    /\ UNCHANGED <<dataSources, files, uncaught, postman>>

\* handleToolCall without the default: case: the switch falls through and
\* the call returns undefined
UnknownToolFallsThrough(c, toolName, args) ==
    /\ Alive
    /\ calls[c].pc = "idle"
    /\ calls' = [calls EXCEPT
           ![c] = Finished(toolName, args, Fulfilled([t |-> "undefined"]))]
    /\ UNCHANGED <<dataSources, files, uncaught, postman>>

\* default: of handleToolCall
UnknownTool(c, toolName, args) ==
    /\ Alive
    /\ calls[c].pc = "idle"
    /\ calls' = [calls EXCEPT
           ![c] = Finished(toolName, args, Rejected(UnknownToolError(toolName)))]
    /\ UNCHANGED <<dataSources, files, uncaught, postman>>

----------------------------------------------------------------------------
(* The relational connector: querySql.  conn is the sqlite3.Database the   *)
(* invocation constructs: none, opening, open, failed (the open failed),   *)
(* closing (db.close() was called and has not completed) or closed.        *)

\* a sample database of three customers
SampleDatabaseThreeCustomers ==
    [kind |-> "sqlite",
     customers |-> <<"Alice Johnson", "Bob Smith", "Carol White">>,
     orders |-> 6]

\* the database createSampleDatabase writes at a fresh path
SampleDatabase ==
    [kind |-> "sqlite",
     customers |-> <<"Alice Johnson", "Bob Smith", "Carol White", "David Brown">>,
     orders |-> 6]

\* what db.all(query) hands its callback on an open connection to file:
\* err (a message) or rows
RunQuery(file, query) ==
    IF file.kind # "sqlite"
    THEN [err |-> Some("file is not a database"), rows |-> <<>>]
    ELSE IF query = "SELECT COUNT(*) AS n FROM customers"
    THEN [err |-> None, rows |-> <<[n |-> Len(file.customers)]>>]
    ELSE IF query = "SELECT name FROM customers"
    THEN [err |-> None,
          rows |-> [i \in DOMAIN file.customers |-> [name |-> file.customers[i]]]]
    ELSE [err |-> Some("syntax error"), rows |-> <<>>]

\* Resolve taking every file-backed source for a source of the kind asked
ResolveAnyFileKind(ds, sourceName, type, notType) ==
    IF ~Has(ds, sourceName) THEN Some(Err("not found", sourceName))
    ELSE IF Get(ds, sourceName).type # type
            /\ ~(type \in FileKinds /\ Get(ds, sourceName).type \in FileKinds)
    THEN Some(Err(notType, sourceName))
    ELSE None

\* the lookup every connector starts with: the error it throws, or None
Resolve(ds, sourceName, type, notType) ==
    IF ~Has(ds, sourceName) THEN Some(Err("not found", sourceName))
    ELSE IF Get(ds, sourceName).type # type THEN Some(Err(notType, sourceName))
    ELSE None

\* case 'query_sql': querySql up to the construction of the Database and
\* the db.all call, which waits for the open
QuerySql(c, args) ==
    /\ Alive
    /\ calls[c].pc = "idle"
    /\ LET failed == IF ~args.present THEN Some(TypeError("args.sourceName"))
                     ELSE Resolve(dataSources, args.sourceName, "sqlite",
                                  "is not a SQLite database")
       IN calls' = [calls EXCEPT ![c] =
              IF failed # None
              THEN Finished("query_sql", args, Rejected(failed[1]))
              ELSE [Started("query_sql", args) EXCEPT
                        !.pc = "sql_open", !.conn = "opening",
                        !.path = Get(dataSources, args.sourceName).config.path]]
    /\ UNCHANGED <<dataSources, files, uncaught, postman>>

\* the callback of new sqlite3.Database: the open succeeded or failed
SqlOpened(c, ok) ==
    /\ Alive
    /\ calls[c].pc = "sql_open"
    /\ calls' = [calls EXCEPT ![c] =
           IF ok
           THEN [@ EXCEPT !.pc = "sql_all", !.conn = "open"]
           ELSE [Settle(@, Rejected(Err("Failed to open database", @.path)))
                    EXCEPT !.pc = "sql_all", !.conn = "failed"]]
    /\ UNCHANGED <<dataSources, files, uncaught, postman>>

\* the callback of db.all.  On a connection that failed to open the callback,
\* if it is called at all, gets an error.
SqlAll(c) ==
    /\ Alive
    /\ calls[c].pc = "sql_all"
    /\ LET call == calls[c]
           q == RunQuery(files[call.path], call.args.query)
       IN calls' = [calls EXCEPT ![c] =
              IF call.conn = "failed"
              THEN \* db.close(); reject(...): nothing is open, the promise is settled
                   [Settle(call, Rejected(Err("Query failed", "not open")))
                       EXCEPT !.pc = "done", !.closes = @ + 1]
              ELSE IF q.err # None
              THEN \* db.close(); reject(new Error(`Query failed: ...`))
                   [Settle(call, Rejected(Err("Query failed", q.err[1])))
                       EXCEPT !.pc = "sql_close", !.conn = "closing",
                              !.queries = @ + 1, !.closes = @ + 1]
              ELSE \* db.close(cb); resolve({...})
                   [Settle(call, Fulfilled([success |-> TRUE,
                                            rowCount |-> Len(q.rows),
                                            data |-> q.rows]))
                       EXCEPT !.pc = "sql_close", !.conn = "closing",
                              !.queries = @ + 1, !.closes = @ + 1]]
    /\ UNCHANGED <<dataSources, files, uncaught, postman>>

\* one connection per database file, shared by the invocations: the close
\* closes it for every invocation that has it open
SqlClosedForAll(c) ==
    /\ Alive
    /\ calls[c].pc = "sql_close"
    /\ calls' = [d \in CallIds |->
           IF d = c THEN [calls[d] EXCEPT !.pc = "done", !.conn = "closed"]
           ELSE IF calls[d].path = calls[c].path /\ calls[d].conn = "open"
           THEN [calls[d] EXCEPT !.conn = "closed"]
           ELSE calls[d]]
    /\ UNCHANGED <<dataSources, files, uncaught, postman>>

\* the close completes (a close error is only logged)
SqlClosed(c) ==
    /\ Alive
    /\ calls[c].pc = "sql_close"
    /\ calls' = [calls EXCEPT ![c] = [@ EXCEPT !.pc = "done", !.conn = "closed"]]
    /\ UNCHANGED <<dataSources, files, uncaught, postman>>

----------------------------------------------------------------------------
(* The remote API connector: fetchApiData.                                 *)

\* a request configuration that takes the body for every method
ApiRequestAlwaysBody(dataSource, endpoint, method, params, body) ==
    [method |-> method,
     url |-> <<dataSource.config.url, endpoint>>,
     headers |-> IF Falsy(dataSource.config.headers)
                 THEN "{}" ELSE dataSource.config.headers,
     params |-> IF Falsy(params) THEN NoArg ELSE params,
     data |-> IF ~Falsy(body) THEN body ELSE NoArg]

\* the axios request configuration fetchApiData builds
ApiRequest(dataSource, endpoint, method, params, body) ==
    [method |-> method,
     url |-> <<dataSource.config.url, endpoint>>,
     headers |-> IF Falsy(dataSource.config.headers)
                 THEN "{}" ELSE dataSource.config.headers,
     params |-> IF Falsy(params) THEN NoArg ELSE params,
     data |-> IF ~Falsy(body) /\ method \in {"POST", "PUT"} THEN body ELSE NoArg]

\* case 'fetch_api_data': fetchApiData up to await axios(config)
FetchApiData(c, args) ==
    /\ Alive
    /\ calls[c].pc = "idle"
    /\ LET failed == IF ~args.present THEN Some(TypeError("args.sourceName"))
                     ELSE Resolve(dataSources, args.sourceName, "api", "is not an API")
       IN calls' = [calls EXCEPT ![c] =
              IF failed # None
              THEN Finished("fetch_api_data", args, Rejected(failed[1]))
              ELSE [Started("fetch_api_data", args) EXCEPT
                        !.pc = "http_wait",
                        !.requests = <<ApiRequest(
                            Get(dataSources, args.sourceName), args.endpoint,
                            IF Falsy(args.method) THEN "GET" ELSE args.method,
                            args.params, args.body)>>]]
    /\ UNCHANGED <<dataSources, files, uncaught, postman>>

\* what axios can come back with: a 2xx response, or an error that carries
\* the remote's response (its statusText may be empty) or none
HttpReplies ==
    {[ok |-> TRUE, status |-> 200, statusText |-> "OK", message |-> ""],
     [ok |-> FALSE, status |-> 404, statusText |-> "Not Found",
      message |-> "Request failed with status code 404"],
     [ok |-> FALSE, status |-> 500, statusText |-> "",
      message |-> "Request failed with status code 500"],
     [ok |-> FALSE, status |-> 0, statusText |-> NoArg,
      message |-> "connect ECONNREFUSED"],
     [ok |-> FALSE, status |-> 0, statusText |-> NoArg,
      message |-> "timeout exceeded"]}

\* a fetchApiData that sends its request a second time when the first got
\* no response
HttpRepliedRetries(c, reply) ==
    /\ Alive
    /\ calls[c].pc = "http_wait"
    /\ calls' = [calls EXCEPT ![c] =
           IF ~reply.ok /\ reply.statusText = NoArg /\ Len(@.requests) < 2
           THEN [@ EXCEPT !.requests = Append(@, @[1])]
           ELSE [Settle(@, IF reply.ok
                           THEN Fulfilled([success |-> TRUE, status |-> reply.status,
                                           headers |-> "response headers",
                                           data |-> "response data"])
                           ELSE Rejected(Err("API request failed",
                                    IF Falsy(reply.statusText)
                                    THEN reply.message ELSE reply.statusText)))
                    EXCEPT !.pc = "done"]]
    /\ UNCHANGED <<dataSources, files, uncaught, postman>>

\* the catch of fetchApiData taking error.message before the status text
HttpRepliedPrefersMessage(c, reply) ==
    /\ Alive
    /\ calls[c].pc = "http_wait"
    /\ calls' = [calls EXCEPT ![c] =
           [Settle(@, IF reply.ok
                      THEN Fulfilled([success |-> TRUE, status |-> reply.status,
                                      headers |-> "response headers",
                                      data |-> "response data"])
                      ELSE Rejected(Err("API request failed",
                               IF Falsy(reply.message)
                               THEN reply.statusText ELSE reply.message)))
               EXCEPT !.pc = "done"]]
    /\ UNCHANGED <<dataSources, files, uncaught, postman>>

\* await axios(config) returns or throws
HttpReplied(c, reply) ==
    /\ Alive
    /\ calls[c].pc = "http_wait"
    /\ calls' = [calls EXCEPT ![c] =
           [Settle(@, IF reply.ok
                      THEN Fulfilled([success |-> TRUE, status |-> reply.status,
                                      headers |-> "response headers",
                                      data |-> "response data"])
                      ELSE Rejected(Err("API request failed",
                               IF Falsy(reply.statusText)
                               THEN reply.message ELSE reply.statusText)))
               EXCEPT !.pc = "done"]]
    /\ UNCHANGED <<dataSources, files, uncaught, postman>>

----------------------------------------------------------------------------
(* The delimited-file connector: readCsv.  stream is the fs.ReadStream:    *)
(* open, destroyed (stream.destroy()), ended or errored.  A CSV file is    *)
(* its data rows, the number of rows each chunk of the file stream         *)
(* completes, and tail, the number of rows (0 or 1) that the parser emits  *)
(* only when the input ends, for a last line without a line break.         *)

CsvFile(rows, chunks, tail) ==
    [kind |-> "csv", rows |-> rows, chunks |-> chunks, tail |-> tail]

\* what csv-parser makes of a file: a file that is no CSV text is read as a
\* header line with no data rows
CsvView(file) ==
    IF file.kind = "csv" THEN file ELSE CsvFile(<<>>, <<0>>, 0)

RECURSIVE SumTo(_, _)
\* the rows completed by the first n chunks
SumTo(chunks, n) == IF n = 0 THEN 0 ELSE SumTo(chunks, n - 1) + chunks[n]

\* row[key] == value: the comparison that coerces a number to its text
LooseEq(row, key, value) == key \in DOMAIN row /\ row[key] = value.v

\* row[key] === value, for a value of the filter: the parser yields strings
StrictEq(row, key, value) ==
    key \in DOMAIN row /\ value.t = "string" /\ row[key] = value.v

\* Object.entries(filter).every(([key, value]) => row[key] === value)
Matches(row, filter) == \A key \in DOMAIN filter : StrictEq(row, key, filter[key])

\* limit && records.length >= limit
LimitReached(records, limit) ==
    limit # None /\ limit[1] # 0 /\ Len(records) >= limit[1]

\* the 'data' handler, for one row
OnData(call, row) ==
    LET filter == call.args.filter
        records == IF filter = None \/ Matches(row, filter[1])
                   THEN Append(call.records, row) ELSE call.records
    IN [call EXCEPT !.records = records,
                    !.stream = IF LimitReached(records, call.args.limit)
                               THEN "destroyed" ELSE @]

RECURSIVE OnRows(_, _)
\* the 'data' handler for the rows the parser emits from one write, in order:
\* destroying the file stream does not stop the parser
OnRows(call, rows) ==
    IF rows = <<>> THEN call ELSE OnRows(OnData(call, Head(rows)), Tail(rows))

\* a readCsv whose records array outlives the call: the rows start from what
\* the other invocation has kept
ReadCsvSharedRecords(c, args) ==
    /\ Alive
    /\ calls[c].pc = "idle"
    /\ LET failed == IF ~args.present THEN Some(TypeError("args.sourceName"))
                     ELSE Resolve(dataSources, args.sourceName, "csv",
                                  "is not a CSV file")
       IN calls' = [calls EXCEPT ![c] =
              IF failed # None
              THEN Finished("read_csv", args, Rejected(failed[1]))
              ELSE [Started("read_csv", args) EXCEPT
                        !.pc = "csv_read", !.stream = "open",
                        !.records = calls[CHOOSE d \in CallIds : d # c].records,
                        !.path = Get(dataSources, args.sourceName).config.path]]
    /\ UNCHANGED <<dataSources, files, uncaught, postman>>

\* case 'read_csv': readCsv up to the creation of the stream and the pipe
ReadCsv(c, args) ==
    /\ Alive
    /\ calls[c].pc = "idle"
    /\ LET failed == IF ~args.present THEN Some(TypeError("args.sourceName"))
                     ELSE Resolve(dataSources, args.sourceName, "csv",
                                  "is not a CSV file")
       IN calls' = [calls EXCEPT ![c] =
              IF failed # None
              THEN Finished("read_csv", args, Rejected(failed[1]))
              ELSE [Started("read_csv", args) EXCEPT
                        !.pc = "csv_read", !.stream = "open",
                        !.path = Get(dataSources, args.sourceName).config.path]]
    /\ UNCHANGED <<dataSources, files, uncaught, postman>>

\* the file stream reads its next chunk and pipes it into the parser, which
\* emits the rows it completes
CsvChunk(c) ==
    /\ Alive
    /\ calls[c].pc = "csv_read"
    /\ calls[c].stream = "open"
    /\ LET call == calls[c]
           file == CsvView(files[call.path])
           from == SumTo(file.chunks, call.pos)
       IN /\ call.pos < Len(file.chunks)
          /\ calls' = [calls EXCEPT ![c] =
                 OnRows([call EXCEPT !.pos = @ + 1],
                        SubSeq(file.rows, from + 1, from + file.chunks[call.pos + 1]))]
    /\ UNCHANGED <<dataSources, files, uncaught, postman>>

\* the file stream reaches the end of the file: pipe ends the parser, which
\* emits the row it still holds and then 'end'
CsvEnd(c) ==
    /\ Alive
    /\ calls[c].pc = "csv_read"
    /\ calls[c].stream = "open"
    /\ LET call == calls[c]
           file == CsvView(files[call.path])
           flushed == OnRows([call EXCEPT !.stream = "ended"],
                             SubSeq(file.rows, Len(file.rows) - file.tail + 1,
                                    Len(file.rows)))
       IN /\ call.pos = Len(file.chunks)
          /\ calls' = [calls EXCEPT ![c] =
                 [Settle(flushed, Fulfilled([success |-> TRUE,
                                             rowCount |-> Len(flushed.records),
                                             data |-> flushed.records]))
                     EXCEPT !.pc = "done"]]
    /\ UNCHANGED <<dataSources, files, uncaught, postman>>

\* the file stream fails (open or read): it emits 'error', for which it has
\* no listener: the handler of line 473 listens on the parser, and pipe does
\* not forward the source's errors
CsvIoError(c) ==
    /\ Alive
    /\ calls[c].pc = "csv_read"
    /\ calls[c].stream = "open"
    /\ calls' = [calls EXCEPT ![c] = [@ EXCEPT !.stream = "errored"]]
    /\ uncaught' = Append(uncaught, [call |-> c, event |-> "error"])
    /\ UNCHANGED <<dataSources, files, postman>>

\* The three listeners of readCsv on their own.  The parser is a collaborator
\* of the connector: ParserData, ParserEnd and ParserError deliver one of its
\* events to the listener readCsv attached, whatever came before, also after
\* the promise has settled and the handler has returned.

\* .on('data', ...) for a row the parser emits
ParserData(c, row) ==
    /\ Alive
    /\ calls[c].tool = "read_csv"
    /\ calls[c].pc \in {"csv_read", "done"}
    /\ calls[c].stream # "none"
    /\ calls' = [calls EXCEPT ![c] = OnData(@, row)]
    /\ UNCHANGED <<dataSources, files, uncaught, postman>>

\* .on('end', ...)
ParserEnd(c) ==
    /\ Alive
    /\ calls[c].tool = "read_csv"
    /\ calls[c].pc \in {"csv_read", "done"}
    /\ calls[c].stream # "none"
    /\ calls' = [calls EXCEPT ![c] =
           [Settle(@, Fulfilled([success |-> TRUE,
                                 rowCount |-> Len(@.records),
                                 data |-> @.records]))
               EXCEPT !.pc = "done"]]
    /\ UNCHANGED <<dataSources, files, uncaught, postman>>

\* .on('error', ...) for an error the parser emits
ParserError(c, message) ==
    /\ Alive
    /\ calls[c].tool = "read_csv"
    /\ calls[c].pc \in {"csv_read", "done"}
    /\ calls[c].stream # "none"
    /\ calls' = [calls EXCEPT ![c] =
           [Settle(@, Rejected(Err("Failed to read CSV", message)))
               EXCEPT !.pc = "done"]]
    /\ UNCHANGED <<dataSources, files, uncaught, postman>>

----------------------------------------------------------------------------
(* The structured-document connector: readJson.  A string that the code    *)
(* takes apart (jsonPath, the keys of objects) is a sequence of            *)
(* one-character strings.                                                  *)

Undefined == [t |-> "undefined"]
Null == [t |-> "null"]
Num(n) == [t |-> "number", n |-> n]
Arr(items) == [t |-> "array", items |-> items]
Obj(keys, vals) == [t |-> "object", keys |-> keys, vals |-> vals]

\* the outcome of evaluating an expression: a value, or a thrown TypeError
Value(v) == [threw |-> FALSE, v |-> v]
Threw == [threw |-> TRUE, v |-> Undefined]

Digits == <<"0", "1", "2", "3", "4", "5", "6", "7", "8", "9">>
IsDigit(ch) == \E d \in DOMAIN Digits : Digits[d] = ch
DigitVal(ch) == (CHOOSE d \in DOMAIN Digits : Digits[d] = ch) - 1

\* NaN
NaN == None

RECURSIVE LeadingDigits(_)
LeadingDigits(s) ==
    IF s = <<>> \/ ~IsDigit(Head(s)) THEN <<>>
    ELSE <<Head(s)>> \o LeadingDigits(Tail(s))

RECURSIVE DecimalValue(_)
DecimalValue(ds) ==
    IF ds = <<>> THEN 0
    ELSE 10 * DecimalValue(SubSeq(ds, 1, Len(ds) - 1)) + DigitVal(ds[Len(ds)])

\* parseInt(s): an optional sign and the leading digits; NaN without a digit
parseInt(s) ==
    LET signed == s # <<>> /\ Head(s) \in {"-", "+"}
        ds == LeadingDigits(IF signed THEN Tail(s) ELSE s)
    IN IF ds = <<>> THEN NaN
       ELSE Some(IF signed /\ Head(s) = "-" THEN 0 - DecimalValue(ds)
                 ELSE DecimalValue(ds))

RECURSIVE NatToString(_)
NatToString(n) ==
    IF n < 10 THEN <<Digits[n + 1]>>
    ELSE NatToString(n \div 10) \o <<Digits[(n % 10) + 1]>>

\* String(idx), the property key a number stands for
NumberToString(idx) ==
    IF idx = NaN THEN <<"N", "a", "N">>
    ELSE IF idx[1] < 0 THEN <<"-">> \o NatToString(0 - idx[1])
    ELSE NatToString(idx[1])

\* s.includes(ch)
Includes(s, ch) == \E i \in DOMAIN s : s[i] = ch

\* s.indexOf(ch), from 1; 0 when s has no ch
IndexOf(s, ch) == IF Includes(s, ch) THEN CHOOSE i \in DOMAIN s :
                      s[i] = ch /\ \A j \in 1..(i - 1) : s[j] # ch
                  ELSE 0

RECURSIVE Split(_, _)
\* s.split(ch)
Split(s, ch) ==
    LET i == IndexOf(s, ch) IN
    IF i = 0 THEN <<s>>
    ELSE <<SubSeq(s, 1, i - 1)>> \o Split(SubSeq(s, i + 1, Len(s)), ch)

\* s.replace(ch, ''): the first ch goes
RemoveFirst(s, ch) ==
    LET i == IndexOf(s, ch) IN
    IF i = 0 THEN s ELSE SubSeq(s, 1, i - 1) \o SubSeq(s, i + 1, Len(s))

\* jsonPath.replace(/^\$\./, '')
StripRoot(s) ==
    IF Len(s) >= 2 /\ s[1] = "$" /\ s[2] = "." THEN SubSeq(s, 3, Len(s)) ELSE s

\* value[key]: a TypeError on undefined and null; an own property of an
\* object; an element or the length of an array; undefined otherwise
GetProp(value, key) ==
    IF value.t \in {"undefined", "null"} THEN Threw
    ELSE IF value.t = "object"
    THEN IF \E i \in DOMAIN value.keys : value.keys[i] = key
         THEN Value(value.vals[CHOOSE i \in DOMAIN value.keys : value.keys[i] = key])
         ELSE Value(Undefined)
    ELSE IF value.t = "array"
    THEN LET idx == parseInt(key) IN
         IF idx # NaN /\ NumberToString(idx) = key
                /\ idx[1] >= 0 /\ idx[1] < Len(value.items)
         THEN Value(value.items[idx[1] + 1])
         ELSE IF key = <<"l", "e", "n", "g", "t", "h">>
         THEN Value(Num(Len(value.items)))
         ELSE Value(Undefined)
    ELSE Value(Undefined)

\* a loop over pathParts that knows no wildcard: "*" is read as a field name
EvalPartNoWildcard(result, part) ==
    IF Includes(part, "[") /\ Includes(part, "]")
    THEN LET pieces == Split(part, "[")
             idx == parseInt(RemoveFirst(pieces[2], "]"))
             inner == GetProp(result, pieces[1])
         IN IF inner.threw THEN Threw ELSE GetProp(inner.v, NumberToString(idx))
    ELSE GetProp(result, part)

\* one turn of the loop over pathParts
EvalPart(result, part) ==
    IF Includes(part, "[") /\ Includes(part, "]")
    THEN \* const [field, index] = part.split('['); result[field][idx]
         LET pieces == Split(part, "[")
             idx == parseInt(RemoveFirst(pieces[2], "]"))
             inner == GetProp(result, pieces[1])
         IN IF inner.threw THEN Threw ELSE GetProp(inner.v, NumberToString(idx))
    ELSE IF part = <<"*">>
    THEN IF result.t = "array" THEN Value(result)
         ELSE IF result.t \in {"undefined", "null"} THEN Threw
         ELSE IF result.t = "object" THEN Value(Arr(result.vals))
         ELSE Value(Arr(<<>>))
    ELSE GetProp(result, part)

RECURSIVE EvalParts(_, _)
\* for (const part of pathParts): a throw leaves the loop
EvalParts(result, parts) ==
    IF parts = <<>> THEN Value(result)
    ELSE LET r == EvalPart(result, Head(parts)) IN
         IF r.threw THEN Threw ELSE EvalParts(r.v, Tail(parts))

\* lines 491-513: the result for a parsed document and a jsonPath
EvalJsonPath(data, jsonPath) ==
    IF jsonPath = None \/ jsonPath = Some(<<>>) THEN Value(data)
    ELSE EvalParts(data, Split(StripRoot(jsonPath[1]), "."))

\* readJson after the lookup, for the file at path; readable is whether
\* fs.readFileSync succeeds
readJson(file, readable, jsonPath) ==
    IF ~readable THEN Rejected(Err("readFileSync failed", "EIO"))
    ELSE IF file.kind # "json" THEN Rejected(Err("SyntaxError", "JSON.parse"))
    ELSE LET r == EvalJsonPath(file.doc, jsonPath) IN
         IF r.threw THEN Rejected(TypeError("Cannot read properties"))
         ELSE Fulfilled([success |-> TRUE, data |-> r.v])

\* case 'read_json': readJson is synchronous
ReadJson(c, args, readable) ==
    /\ Alive
    /\ calls[c].pc = "idle"
    /\ LET failed == IF ~args.present THEN Some(TypeError("args.sourceName"))
                     ELSE Resolve(dataSources, args.sourceName, "json",
                                  "is not a JSON file")
       IN calls' = [calls EXCEPT ![c] =
              IF failed # None
              THEN Finished("read_json", args, Rejected(failed[1]))
              ELSE LET path == Get(dataSources, args.sourceName).config.path IN
                   [Finished("read_json", args,
                             readJson(files[path], readable, args.jsonPath))
                       EXCEPT !.fileReads = 1, !.path = path]]
    /\ UNCHANGED <<dataSources, files, uncaught, postman>>

----------------------------------------------------------------------------
(* createSampleDatabase: the eighth case of handleToolCall.                *)

\* case 'create_sample_database': up to the construction of the Database
CreateSampleDatabase(c, args) ==
    /\ Alive
    /\ calls[c].pc = "idle"
    /\ calls' = [calls EXCEPT ![c] =
           IF ~args.present
           THEN Finished("create_sample_database", args,
                         Rejected(TypeError("args.path")))
           ELSE IF args.path = NoArg
           THEN \* new sqlite3.Database(undefined) throws in the executor
                Finished("create_sample_database", args,
                         Rejected(TypeError("filename")))
           ELSE [Started("create_sample_database", args) EXCEPT
                     !.pc = "sample_run", !.conn = "opening", !.path = args.path]]
    /\ UNCHANGED <<dataSources, files, uncaught, postman>>

\* the open, the serialized statements and the close have run.  how is
\* "open_failed" (the open callback rejects), "created" (the tables and the
\* rows were written and the close callback resolves) or "statement_error":
\* a statement run without a callback failed (the file is no database, or
\* holds the sample rows already, whose emails are UNIQUE) and its error is
\* emitted as an 'error' event that has no listener.
SampleRan(c, how) ==
    /\ Alive
    /\ calls[c].pc = "sample_run"
    /\ LET call == calls[c]
           fresh == ~existsSync(files, call.path)
       IN \/ /\ how = "open_failed"
             /\ calls' = [calls EXCEPT ![c] =
                    [Settle(call, Rejected(Err("Failed to create database", call.path)))
                        EXCEPT !.pc = "done", !.conn = "failed"]]
             /\ UNCHANGED <<files, uncaught>>
          \/ /\ how = "created"
             /\ fresh
             /\ files' = [files EXCEPT ![call.path] = SampleDatabase]
             /\ calls' = [calls EXCEPT ![c] =
                    [Settle(call, Fulfilled([success |-> TRUE,
                                             message |-> "Sample database created",
                                             info |-> [customers |-> 4, orders |-> 6]]))
                        EXCEPT !.pc = "done", !.conn = "closed", !.closes = @ + 1]]
             /\ UNCHANGED uncaught
          \/ /\ how = "statement_error"
             /\ ~fresh
             /\ calls' = [calls EXCEPT ![c] = [call EXCEPT !.conn = "open"]]
             /\ uncaught' = Append(uncaught, [call |-> c, event |-> "error"])
             /\ UNCHANGED files
    /\ UNCHANGED <<dataSources, postman>>

\* the caller has its response and the invocation holds nothing any more:
\* the slot is free for the next request
Release(c) ==
    /\ Alive
    /\ calls[c].pc = "done"
    /\ calls' = [calls EXCEPT ![c] = Idle]
    /\ UNCHANGED <<dataSources, files, uncaught, postman>>

----------------------------------------------------------------------------
(* The Postman server (MCP/postman-server/src/index.ts): create_request.   *)
(* postman.collection is the collection as the Postman API holds it, with  *)
(* its item list or without one; postman.calls are the invocations of      *)
(* create_request, each with the copy of the collection it has read.       *)

\* an invocation slot of the Postman server with no invocation in it
PostmanIdle ==
    [pc |-> "idle", args |-> NoArgs, collection |-> None, response |-> NoResponse]

\* the Postman server as the gateway's specifications see it: idle
PostmanStart ==
    [collection |-> [item |-> None], calls |-> [c \in CallIds |-> PostmanIdle]]

\* newRequest, the item create_request builds from its arguments
NewRequest(args) ==
    [name |-> args.name,
     request |-> [method |-> args.method, header |-> <<>>, url |-> [raw |-> args.url]]]

\* if (!collection.item) collection.item = []; collection.item.push(newRequest)
PushItem(collection, newRequest) ==
    [collection EXCEPT
        !.item = Some((IF @ = None THEN <<>> ELSE @[1]) \o <<newRequest>>)]

\* the catch of the handler for an axios error
PostmanError(message) ==
    [sent |-> TRUE, isError |-> TRUE, text |-> Err("Postman API error", message)]

\* create_request arrives: the GET of the collection is sent
CreateRequest(c, args) ==
    /\ postman.calls[c].pc = "idle"
    /\ postman' = [postman EXCEPT
           !.calls[c] = [PostmanIdle EXCEPT !.pc = "get_wait", !.args = args]]
    /\ UNCHANGED <<dataSources, files, calls, uncaught>>

\* the GET comes back: with the collection as the API holds it now, to which
\* the handler adds its item and which it sends back with a PUT; or with an
\* error
CollectionGot(c, ok) ==
    /\ postman.calls[c].pc = "get_wait"
    /\ LET call == postman.calls[c] IN
       postman' = [postman EXCEPT !.calls[c] =
           IF ok
           THEN [call EXCEPT !.pc = "put_wait",
                             !.collection =
                                 Some(PushItem(postman.collection, NewRequest(call.args)))]
           ELSE [call EXCEPT !.pc = "done", !.response = PostmanError("GET failed")]]
    /\ UNCHANGED <<dataSources, files, calls, uncaught>>

\* the PUT comes back: the API has replaced the collection by the one it was
\* sent and the handler reports success; or with an error
CollectionPut(c, ok) ==
    /\ postman.calls[c].pc = "put_wait"
    /\ postman' =
           IF ok
           THEN [postman EXCEPT
                    !.collection = postman.calls[c].collection[1],
                    !.calls[c].pc = "done",
                    !.calls[c].response =
                        [sent |-> TRUE, isError |-> FALSE,
                         text |-> [msg |-> "created successfully",
                                   about |-> postman.calls[c].args.name]]]
           ELSE [postman EXCEPT
                    !.calls[c].pc = "done",
                    !.calls[c].response = PostmanError("PUT failed")]
    /\ UNCHANGED <<dataSources, files, calls, uncaught>>

\* the caller has its response
PostmanRelease(c) ==
    /\ postman.calls[c].pc = "done"
    /\ postman' = [postman EXCEPT !.calls[c] = PostmanIdle]
    /\ UNCHANGED <<dataSources, files, calls, uncaught>>

----------------------------------------------------------------------------
(* The gateway under one caller: every tool, every kind of source.         *)

Names == {"a", "b"}
Types == {"sqlite", "api", "csv", "json", "xml"}
Paths == {"data.db", "data.csv", "data.json", "new.db"}

\* "abc": the characters of a key or a path
a == <<"a">>
b == <<"b">>

\* the files the gateway starts with; new.db is a fresh path
InitFiles ==
    [p \in Paths |->
        CASE p = "data.db" -> SampleDatabase
          [] p = "data.csv" ->
                 CsvFile(<<[id |-> "1", k |-> "1"], [id |-> "2", k |-> "2"],
                           [id |-> "3", k |-> "1"]>>, <<2, 1>>, 0)
          [] p = "data.json" -> [kind |-> "json",
                                 doc |-> Obj(<<a>>, <<Obj(<<b>>, <<Arr(<<Num(10), Num(20)>>)>>)>>)]
          [] OTHER -> Absent]

Configs ==
    {NoConfig, Config(NoArg, NoArg, NoArg), Config(NoArg, "http://api", NoArg),
     Config(NoArg, "http://api", "auth")}
    \cup {Config(p, NoArg, NoArg) : p \in Paths}

\* a type outside the four goes through the switch unvalidated, whatever
\* the config: two configs stand for all
RegisterArgs ==
    {NoArgs}
    \cup [present : {TRUE}, name : Names, type : Types \ {"xml"}, config : Configs]
    \cup [present : {TRUE}, name : Names, type : {"xml"},
          config : {NoConfig, Config("new.db", NoArg, NoArg)}]

SourceNames == Names \cup {"zz"}

QueryArgs ==
    {NoArgs} \cup
    [present : {TRUE}, sourceName : SourceNames,
     query : {"SELECT COUNT(*) AS n FROM customers", "SELECT name FROM customers",
              "SELEC"}]

FetchArgs ==
    {NoArgs} \cup
    [present : {TRUE}, sourceName : SourceNames, endpoint : {"/users"},
     method : {NoArg, "GET", "POST", "PUT", "DELETE"},
     params : {NoArg, "q=1"}, body : {NoArg, "body"}]

String(v) == [t |-> "string", v |-> v]
Number(v) == [t |-> "number", v |-> v]

CsvArgs ==
    {NoArgs} \cup
    [present : {TRUE}, sourceName : SourceNames,
     filter : {None, Some([k |-> String("1")])},
     limit : {None, Some(0), Some(1), Some(2)}]

JsonArgs ==
    {NoArgs} \cup
    [present : {TRUE}, sourceName : SourceNames,
     jsonPath : {None, Some(<<"$", ".", "a", ".", "b", "[", "0", "]">>),
                 Some(<<"$", ".", "m", ".", "x">>), Some(<<"$", ".", "m">>)}]

SampleArgs == {NoArgs} \cup [present : {TRUE}, path : {NoArg, "new.db", "data.db"}]

TransformArgs ==
    {NoArgs} \cup
    [present : {TRUE}, sourceName : SourceNames,
     operation : {"count", "median"}, field : {NoArg, "amount"}]

OtherTools == {"delete_data_source", "query"}

Init ==
    /\ dataSources = <<>>
    /\ files = InitFiles
    /\ calls = [c \in CallIds |-> Idle]
    /\ uncaught = <<>>
    /\ postman = PostmanStart

\* the steps of an invocation after its synchronous part
Continue(c) ==
    \/ \E ok \in BOOLEAN : SqlOpened(c, ok)
    \/ SqlAll(c)
    \/ SqlClosed(c)
    \/ \E reply \in HttpReplies : HttpReplied(c, reply)
    \/ CsvChunk(c)
    \/ CsvEnd(c)
    \/ CsvIoError(c)
    \/ \E how \in {"open_failed", "created", "statement_error"} : SampleRan(c, how)
    \/ Release(c)

Next ==
    \/ \E args \in RegisterArgs : RegisterDataSource(1, args)
    \/ \E args \in {NoArgs, [present |-> TRUE]} : ListDataSources(1, args)
    \/ \E args \in QueryArgs : QuerySql(1, args)
    \/ \E args \in FetchArgs : FetchApiData(1, args)
    \/ \E args \in CsvArgs : ReadCsv(1, args)
    \/ \E args \in JsonArgs, readable \in BOOLEAN : ReadJson(1, args, readable)
    \/ \E args \in SampleArgs : CreateSampleDatabase(1, args)
    \/ \E args \in TransformArgs : TransformData(1, args)
    \/ \E toolName \in OtherTools : UnknownTool(1, toolName, NoArgs)
    \/ Continue(1)

Spec == Init /\ [][Next]_vars

----------------------------------------------------------------------------
(* Two callers that register sources at the same time, with valid configs. *)
(* registerDataSource has no await between its has and its set, so each    *)
(* registration is one turn of the event loop; the invocations of the two  *)
(* callers interleave turn by turn, and a caller may hold its response     *)
(* while the other registers.                                              *)

ValidRegisterArgs ==
    [present : {TRUE}, name : Names, type : {"sqlite"},
     config : {Config("data.db", NoArg, NoArg)}]
    \cup [present : {TRUE}, name : Names, type : {"csv"},
          config : {Config("data.csv", NoArg, NoArg)}]
    \cup [present : {TRUE}, name : Names, type : {"api"},
          config : {Config(NoArg, "http://api", NoArg),
                    Config(NoArg, "http://api", "auth")}]

NextRegister ==
    \/ \E c \in CallIds, args \in ValidRegisterArgs : RegisterDataSource(c, args)
    \/ \E c \in CallIds, args \in {[present |-> TRUE]} : ListDataSources(c, args)
    \/ \E c \in CallIds : Release(c)

SpecRegister == Init /\ [][NextRegister]_vars

----------------------------------------------------------------------------
(* Two callers on a registry and on files that do not change: a database,  *)
(* a second sqlite source whose file is no database, a csv and a json      *)
(* source.  The invocations of the two callers interleave callback by      *)
(* callback.                                                               *)

TwoSources ==
    <<[type |-> "sqlite", name |-> "a", config |-> Config("data.db", NoArg, NoArg)],
      [type |-> "sqlite", name |-> "b", config |-> Config("data.csv", NoArg, NoArg)],
      [type |-> "csv", name |-> "c", config |-> Config("data.csv", NoArg, NoArg)],
      [type |-> "json", name |-> "j", config |-> Config("data.json", NoArg, NoArg)]>>

TwoQueryArgs ==
    [present : {TRUE}, sourceName : {"a", "b"},
     query : {"SELECT COUNT(*) AS n FROM customers", "SELEC"}]

TwoCsvArgs ==
    [present : {TRUE}, sourceName : {"c", "zz"},
     filter : {None, Some([k |-> String("1")])}, limit : {None, Some(2)}]

TwoJsonArgs ==
    [present : {TRUE}, sourceName : {"j"},
     jsonPath : {None, Some(<<"$", ".", "a", ".", "b", "[", "0", "]">>)}]

TwoTransformArgs ==
    [present : {TRUE}, sourceName : {"a", "zz"}, operation : {"count"},
     field : {NoArg}]

TwoRegisterArgs ==
    [present : {TRUE}, name : {"a"}, type : {"api"},
     config : {Config(NoArg, "http://api", NoArg)}]

InitTwo ==
    /\ dataSources = TwoSources
    /\ files = InitFiles
    /\ calls = [c \in CallIds |-> Idle]
    /\ uncaught = <<>>
    /\ postman = PostmanStart

NextTwo ==
    \E c \in CallIds :
        \/ \E args \in TwoRegisterArgs : RegisterDataSource(c, args)
        \/ \E args \in {[present |-> TRUE]} : ListDataSources(c, args)
        \/ \E args \in TwoQueryArgs : QuerySql(c, args)
        \/ \E ok \in BOOLEAN : SqlOpened(c, ok)
        \/ SqlAll(c)
        \/ SqlClosed(c)
        \/ \E args \in TwoCsvArgs : ReadCsv(c, args)
        \/ CsvChunk(c)
        \/ CsvEnd(c)
        \/ \E args \in TwoJsonArgs : ReadJson(c, args, TRUE)
        \/ \E args \in TwoTransformArgs : TransformData(c, args)
        \/ Release(c)

SpecTwo == InitTwo /\ [][NextTwo]_vars

----------------------------------------------------------------------------
(* Two callers of create_request on one collection, of at most MaxItems    *)
(* items when an invocation arrives.                                       *)

MaxItems == 2

RequestArgs ==
    [present : {TRUE}, name : {"r1", "r2"}, method : {"GET"}, url : {"https://h/p"}]

\* the collection the callers find: without an item list, empty, or with one
\* request in it
StartCollections ==
    {[item |-> None], [item |-> Some(<<>>)],
     [item |-> Some(<<NewRequest([present |-> TRUE, name |-> "r0", method |-> "GET",
                                  url |-> "https://h/p"])>>)]}

\* collection.item as a sequence
Items(collection) == IF collection.item = None THEN <<>> ELSE collection.item[1]

InitPostman ==
    /\ dataSources = <<>>
    /\ files = InitFiles
    /\ calls = [c \in CallIds |-> Idle]
    /\ uncaught = <<>>
    /\ \E collection \in StartCollections :
           postman = [PostmanStart EXCEPT !.collection = collection]

NextPostman ==
    \E c \in CallIds :
        \/ \E args \in RequestArgs :
               Len(Items(postman.collection)) < MaxItems /\ CreateRequest(c, args)
        \/ \E ok \in BOOLEAN : CollectionGot(c, ok)
        \/ \E ok \in BOOLEAN : CollectionPut(c, ok)
        \/ PostmanRelease(c)

SpecPostman == InitPostman /\ [][NextPostman]_vars

----------------------------------------------------------------------------
(* readCsv over every small file: the registry holds one csv source, "a",  *)
(* and the file behind it is any file of at most MaxRows rows delivered in *)
(* at most MaxChunks chunks.                                               *)

MaxRows == 3
MaxChunks == 3
MaxLimit == 3

\* row i of a file: its number and one more column
RowsOf(n) ==
    {[i \in 1..n |-> [id |-> Digits[i + 1], k |-> ks[i]]] : ks \in [1..n -> {"1", "2"}]}

\* the ways n rows arrive in at most MaxChunks chunks (a chunk may complete
\* no row); a file that holds anything arrives in at least one chunk
Chunkings(n) ==
    {ch \in UNION {[1..m -> 0..n] : m \in 1..MaxChunks} : SumTo(ch, Len(ch)) = n}

CsvFiles ==
    {CsvFile(<<>>, <<>>, 0)} \cup
    UNION {UNION {{CsvFile(rows, ch, tail) : rows \in RowsOf(n), ch \in Chunkings(n - tail)}
                  : tail \in 0..(IF n = 0 THEN 0 ELSE 1)}
           : n \in 0..MaxRows}

CsvSource == [type |-> "csv", name |-> "a", config |-> Config("data.csv", NoArg, NoArg)]

CsvReadArgs ==
    [present : {TRUE}, sourceName : {"a"},
     filter : {None, Some(<<>>), Some([k |-> String("1")]), Some([k |-> Number("1")]),
               Some([k |-> String("1"), id |-> String("2")]),
               Some([z |-> String("1")])},
     limit : {None} \cup {Some(n) : n \in 0..MaxLimit}]

InitCsv ==
    /\ dataSources = <<CsvSource>>
    /\ \E file \in CsvFiles : files = [InitFiles EXCEPT !["data.csv"] = file]
    /\ calls = [c \in CallIds |-> Idle]
    /\ uncaught = <<>>
    /\ postman = PostmanStart

NextCsv ==
    \/ \E args \in CsvReadArgs : ReadCsv(1, args)
    \/ CsvChunk(1)
    \/ CsvEnd(1)
    \/ CsvIoError(1)
    \/ Release(1)

SpecCsv == InitCsv /\ [][NextCsv]_vars

\* readCsv on files that can be read to their end: no I/O failure.  The file
\* stream delivers the chunk it has read and, after the last, the end of the
\* file: an open stream is not left waiting for ever.
NextCsvRead ==
    \/ \E args \in CsvReadArgs : ReadCsv(1, args)
    \/ CsvChunk(1)
    \/ CsvEnd(1)
    \/ Release(1)

SpecCsvFair ==
    /\ InitCsv
    /\ [][NextCsvRead]_vars
    /\ WF_vars(CsvChunk(1))
    /\ WF_vars(CsvEnd(1))

----------------------------------------------------------------------------
(* The listeners of readCsv under every order of the parser's events: any  *)
(* number of 'data', 'end' and 'error' events, in any order, until the     *)
(* listener has kept MaxRecords rows.                                      *)

MaxRecords == 2

EventRows == {[id |-> "1", k |-> "1"], [id |-> "2", k |-> "2"]}

EventArgs ==
    [present : {TRUE}, sourceName : {"a"},
     filter : {None, Some([k |-> String("1")])},
     limit : {None, Some(0), Some(1), Some(2)}]

InitEvents ==
    /\ dataSources = <<CsvSource>>
    /\ files = InitFiles
    /\ calls = [c \in CallIds |-> Idle]
    /\ uncaught = <<>>
    /\ postman = PostmanStart

NextEvents ==
    \/ \E args \in EventArgs : ReadCsv(1, args)
    \/ \E row \in EventRows :
           Len(calls[1].records) < MaxRecords /\ ParserData(1, row)
    \/ ParserEnd(1)
    \/ \E message \in {"Row exceeds the maximum size"} : ParserError(1, message)
    \/ Release(1)

SpecCsvEvents == InitEvents /\ [][NextEvents]_vars

----------------------------------------------------------------------------
(* readJson over documents and path expressions: the registry holds one    *)
(* json source, "a"; a path is at most MaxSegs segments, each a field      *)
(* name, a field name with an index, or the wildcard, joined by "." and    *)
(* written with or without the leading "$.".                               *)

MaxSegs == 2
MaxIndex == 2

m == <<"m">>

Docs ==
    {Obj(<<a>>, <<Obj(<<b>>, <<Arr(<<Num(10), Num(20)>>)>>)>>),
     Obj(<<a, b>>, <<Num(10), Arr(<<Num(10), Obj(<<a>>, <<Num(20)>>)>>)>>),
     Obj(<<a, b>>, <<Null, Obj(<<a>>, <<Arr(<<>>)>>)>>),
     Arr(<<Num(10), Num(20)>>),
     Num(10)}

Field(name) == [kind |-> "field", name |-> name, index |-> 0]
Indexed(name, i) == [kind |-> "indexed", name |-> name, index |-> i]
Wildcard == [kind |-> "wildcard", name |-> <<>>, index |-> 0]

Segments ==
    {Field(n) : n \in {a, b, m}}
    \cup {Indexed(n, i) : n \in {a, b, m}, i \in 0..MaxIndex}
    \cup {Wildcard}

SegmentPaths == UNION {[1..n -> Segments] : n \in 1..MaxSegs}

\* a segment as the caller writes it
SegmentText(seg) ==
    CASE seg.kind = "field" -> seg.name
      [] seg.kind = "indexed" -> seg.name \o <<"[">> \o NatToString(seg.index) \o <<"]">>
      [] OTHER -> <<"*">>

RECURSIVE Join(_)
Join(segs) ==
    IF Len(segs) = 1 THEN SegmentText(segs[1])
    ELSE SegmentText(segs[1]) \o <<".">> \o Join(Tail(segs))

\* a path expression as the caller writes it
PathText(rooted, segs) == IF rooted THEN <<"$", ".">> \o Join(segs) ELSE Join(segs)

JsonPaths ==
    {None, Some(<<>>)}
    \cup {Some(PathText(rooted, segs)) : rooted \in BOOLEAN, segs \in SegmentPaths}

JsonSource == [type |-> "json", name |-> "a", config |-> Config("data.json", NoArg, NoArg)]

JsonReadArgs == [present : {TRUE}, sourceName : {"a"}, jsonPath : JsonPaths]

InitJson ==
    /\ dataSources = <<JsonSource>>
    /\ \E doc \in Docs :
           files = [InitFiles EXCEPT !["data.json"] = [kind |-> "json", doc |-> doc]]
    /\ calls = [c \in CallIds |-> Idle]
    /\ uncaught = <<>>
    /\ postman = PostmanStart

NextJson ==
    \/ /\ calls[1].pc = "idle"
       /\ \E args \in JsonReadArgs, readable \in BOOLEAN : ReadJson(1, args, readable)
    \/ Release(1)

SpecJson == InitJson /\ [][NextJson]_vars

----------------------------------------------------------------------------
(* Properties.                                                             *)

\* the tool surface of the interface table
SevenTools ==
    {"register_data_source", "list_data_sources", "query_sql", "fetch_api_data",
     "read_csv", "read_json", "transform_data"}

\* the cases of handleToolCall
EightTools == SevenTools \cup {"create_sample_database"}

\* this step is the arrival of an invocation of toolName in slot c
Invokes(c, toolName) ==
    calls[c].pc = "idle" /\ calls'[c].pc # "idle" /\ calls'[c].tool = toolName

\* the envelope is the error envelope for this error
IsErrorEnvelope(response, error) ==
    response.sent /\ response.isError /\ response.text = error

\* the invocation has touched nothing: no connection, no request, no file
TouchedNothing(call) ==
    /\ call.conn = "none" /\ call.queries = 0
    /\ call.requests = <<>>
    /\ call.stream = "none" /\ call.pos = 0 /\ call.fileReads = 0

\* the rows among the first n of a file that a filter keeps, in file order
Kept(file, n, filter) ==
    SelectSeq(SubSeq(file.rows, 1, n),
              LAMBDA row : filter = None \/ Matches(row, filter[1]))

\* a read_csv invocation that got as far as its file stream
ReadsCsv(call) == call.tool = "read_csv" /\ call.stream # "none"

\* C1 (as claimed): a read_csv with no filter and a limit k, 1 <= k < N, on
\* a file of N rows, whose file stream has stopped (ended or destroyed), has
\* returned a result with rowCount k and data the first k rows of the file.
C1_LimitReturnsFirstK ==
    \A c \in CallIds :
        LET call == calls[c] IN
        (/\ ReadsCsv(call)
         /\ call.stream \in {"destroyed", "ended"}
         /\ call.args.filter = None
         /\ call.args.limit # None
         /\ call.args.limit[1] >= 1
         /\ call.args.limit[1] < Len(CsvView(files[call.path]).rows))
        => /\ call.response.sent
           /\ ~call.response.isError
           /\ call.response.text.rowCount = call.args.limit[1]
           /\ call.response.text.data =
                  SubSeq(CsvView(files[call.path]).rows, 1, call.args.limit[1])

\* the early-cancellation contract for the limits in limits: once the rows
\* kept from the chunks read reach the limit the file stream is no longer
\* open; every chunk that
\* was read was read while the kept rows were below the limit; and when the
\* limit is reached before the last chunk, the last chunk is never read
EarlyCancellation(limits) ==
    \A c \in CallIds :
        LET call == calls[c]
            file == CsvView(files[call.path])
            last == Len(file.chunks)
        IN (ReadsCsv(call) /\ call.args.limit # None /\ call.args.limit[1] \in limits)
           => /\ (call.pos >= 1 /\ Len(call.records) >= call.args.limit[1])
                     => call.stream # "open"
              /\ call.pos >= 1 =>
                     Len(Kept(file, SumTo(file.chunks, call.pos - 1), call.args.filter))
                         < call.args.limit[1]
              /\ (/\ last >= 1
                  /\ Len(Kept(file, SumTo(file.chunks, last - 1), call.args.filter))
                         >= call.args.limit[1])
                 => call.pos < last

\* C2 (as claimed): in every read_csv with a limit, once the number of kept
\* rows reaches the limit the file stream is stopped and no further chunk is
\* read; when the limit is reached before the last chunk, fewer chunks are
\* read than the file has.
C2_EarlyCancellation == EarlyCancellation(0..MaxLimit)

\* the same for the limits of at least 1, which the code does apply
EarlyCancellationFromOne == EarlyCancellation(1..MaxLimit)

\* a read_csv whose stream was destroyed with chunks of the file left unread
EarlyCancellationHappens ==
    \E c \in CallIds :
        /\ ReadsCsv(calls[c])
        /\ calls[c].stream = "destroyed"
        /\ calls[c].pos < Len(CsvView(files[calls[c].path]).chunks)

RECURSIVE Reference(_, _)
\* the left-to-right evaluation of a path by the grammar of path
\* expressions: "hit" with the value selected, "miss" at a missing field or
\* an index out of range, "unspecified" for a wildcard on a scalar
Reference(value, segs) ==
    IF segs = <<>> THEN [status |-> "hit", v |-> value]
    ELSE LET seg == Head(segs)
             miss == [status |-> "miss", v |-> Undefined]
             has == value.t = "object"
                    /\ \E i \in DOMAIN value.keys : value.keys[i] = seg.name
             at == value.vals[CHOOSE i \in DOMAIN value.keys : value.keys[i] = seg.name]
         IN CASE seg.kind = "field" ->
                     IF has THEN Reference(at, Tail(segs)) ELSE miss
              [] seg.kind = "indexed" ->
                     IF has /\ at.t = "array" /\ seg.index < Len(at.items)
                     THEN Reference(at.items[seg.index + 1], Tail(segs))
                     ELSE miss
              [] OTHER ->
                     IF value.t = "object" THEN Reference(Arr(value.vals), Tail(segs))
                     ELSE IF value.t = "array" THEN Reference(value, Tail(segs))
                     ELSE [status |-> "unspecified", v |-> Undefined]

\* a read_json invocation that read and parsed its file
ReadsJson(call) ==
    /\ call.tool = "read_json" /\ call.fileReads = 1
    /\ files[call.path].kind = "json"
    /\ ~(call.outcome.state = "rejected"
         /\ call.outcome.error.msg = "readFileSync failed")

\* C3 (as claimed): when the evaluation of the path misses at a segment (a
\* missing field at any position, an index out of range), read_json returns
\* a successful result whose data is undefined, never an error.
C3_SegmentMissIsUndefined ==
    \A c \in CallIds :
        LET call == calls[c] IN
        ReadsJson(call) =>
            \A rooted \in BOOLEAN, segs \in SegmentPaths :
                (/\ call.args.jsonPath = Some(PathText(rooted, segs))
                 /\ Reference(files[call.path].doc, segs).status = "miss")
                => /\ call.response.sent
                   /\ ~call.response.isError
                   /\ call.response.text.data = Undefined

\* C4 (as claimed): no state is reachable in which the caller of query_sql
\* has received the outcome while the connection of that invocation is still
\* open (being opened, open, or with its close still to complete).
C4_ClosedBeforeOutcome ==
    \A c \in CallIds :
        (calls[c].tool = "query_sql" /\ calls[c].response.sent)
        => calls[c].conn \notin {"opening", "open", "closing"}

\* C5: a register_data_source with a name the registry has fails with the
\* duplicate-name error and leaves the registry as it was, whatever kind and
\* config the call carried.
C5_DuplicateRejected ==
    [][\A c \in CallIds :
           (/\ Invokes(c, "register_data_source")
            /\ calls'[c].args.present
            /\ Has(dataSources, calls'[c].args.name))
           => /\ dataSources' = dataSources
              /\ IsErrorEnvelope(calls'[c].response,
                                 Err("already exists", calls'[c].args.name))]_vars

\* a duplicate registration that carried another kind than the stored one
C5_DuplicateHappens ==
    \E c \in CallIds :
        /\ calls[c].tool = "register_data_source"
        /\ calls[c].args.present
        /\ IsErrorEnvelope(calls[c].response, Err("already exists", calls[c].args.name))
        /\ Get(dataSources, calls[c].args.name).type # calls[c].args.type

\* the configurations C6 names: no path, or a path with no file behind it,
\* for a file-backed kind; no url for the api kind
InvalidConfig(fs, type, config) ==
    \/ /\ type \in {"sqlite", "csv", "json"}
       /\ \/ ~config.defined
          \/ config.path = NoArg
          \/ fs[config.path].kind = "absent"
    \/ /\ type = "api"
       /\ (~config.defined \/ config.url = NoArg)

\* C6: a register_data_source whose config lacks the path (file-backed
\* kinds) or the url (api), or whose path names no existing file, fails and
\* leaves the registry as it was.
C6_InvalidConfigRejected ==
    [][\A c \in CallIds :
           (/\ Invokes(c, "register_data_source")
            /\ calls'[c].args.present
            /\ InvalidConfig(files, calls'[c].args.type, calls'[c].args.config))
           => /\ dataSources' = dataSources
              /\ calls'[c].response.sent
              /\ calls'[c].response.isError]_vars

\* a registration of a new name that failed for a file that does not exist
C6_InvalidConfigHappens ==
    \E c \in CallIds :
        /\ calls[c].tool = "register_data_source"
        /\ calls[c].args.present
        /\ ~Has(dataSources, calls[c].args.name)
        /\ IsErrorEnvelope(calls[c].response,
                           Err("File not found", calls[c].args.config.path))

\* C7 (as claimed): while the tools of the gateway are served no failure
\* leaves the handler as an unhandled event, and an invocation whose file
\* stream failed has returned the error envelope.
C7_EveryFailureIsAnEnvelope ==
    /\ \A i \in DOMAIN uncaught : calls[uncaught[i].call].tool \notin SevenTools
    /\ \A c \in CallIds :
           (calls[c].tool \in SevenTools /\ calls[c].stream = "errored")
           => (calls[c].response.sent /\ calls[c].response.isError)

\* C8 (as claimed): every successful invocation of one of the seven tools
\* returns a result that carries success = true.
C8_EverySuccessCarriesSuccess ==
    \A c \in CallIds :
        (/\ calls[c].tool \in SevenTools
         /\ calls[c].response.sent
         /\ ~calls[c].response.isError)
        => /\ "success" \in DOMAIN calls[c].response.text
           /\ calls[c].response.text.success = TRUE

\* C8 (amended): every successful invocation of a tool other than
\* list_data_sources returns a result that carries success = true; the
\* result of list_data_sources holds count and dataSources and nothing else.
C8_SuccessExceptList ==
    \A c \in CallIds :
        (/\ calls[c].tool \in EightTools
         /\ calls[c].response.sent
         /\ ~calls[c].response.isError)
        => IF calls[c].tool = "list_data_sources"
           THEN DOMAIN calls[c].response.text = {"count", "dataSources"}
           ELSE /\ "success" \in DOMAIN calls[c].response.text
                /\ calls[c].response.text.success = TRUE

\* a read_csv that returned its rows
C8_SuccessHappens ==
    \E c \in CallIds :
        /\ calls[c].tool = "read_csv"
        /\ calls[c].response.sent
        /\ ~calls[c].response.isError
        /\ calls[c].response.text.rowCount >= 1

\* an invocation of a tool name outside known fails as an unknown tool,
\* runs no connector and leaves the registry and the files as they were
UnknownToolOutside(known) ==
    \A c \in CallIds :
        (calls[c].pc = "idle" /\ calls'[c].pc # "idle"
         /\ calls'[c].tool \notin known)
        => /\ IsErrorEnvelope(calls'[c].response, UnknownToolError(calls'[c].tool))
           /\ TouchedNothing(calls'[c])
           /\ calls'[c].pc = "done"
           /\ dataSources' = dataSources
           /\ files' = files

\* C9 (as claimed): every tool name other than the seven of the tool
\* surface fails with the unknown-tool error, runs no connector and leaves
\* the registry unchanged.
C9_OnlySevenTools == [][UnknownToolOutside(SevenTools)]_vars

\* C9 (amended): the same for every tool name other than the eight cases of
\* handleToolCall, the seven and create_sample_database.
C9_UnknownTool == [][UnknownToolOutside(EightTools)]_vars

\* an invocation of a tool that does not exist, answered
C9_UnknownToolHappens ==
    \E c \in CallIds :
        /\ calls[c].tool = "delete_data_source"
        /\ IsErrorEnvelope(calls[c].response, UnknownToolError("delete_data_source"))

\* the kind each connector expects and the message of its kind mismatch
Expects ==
    [query_sql |-> [type |-> "sqlite", msg |-> "is not a SQLite database"],
     fetch_api_data |-> [type |-> "api", msg |-> "is not an API"],
     read_csv |-> [type |-> "csv", msg |-> "is not a CSV file"],
     read_json |-> [type |-> "json", msg |-> "is not a JSON file"]]

\* C10: query_sql, fetch_api_data, read_csv and read_json fail with the
\* not-found error for a sourceName the registry does not have and with the
\* kind-mismatch error for a source of another kind than theirs; in both
\* cases no connection is opened, no request is sent and no file is read.
C10_ResolutionErrors ==
    [][\A c \in CallIds, toolName \in DOMAIN Expects :
           (Invokes(c, toolName) /\ calls'[c].args.present)
           => LET name == calls'[c].args.sourceName IN
              /\ ~Has(dataSources, name)
                 => /\ IsErrorEnvelope(calls'[c].response, Err("not found", name))
                    /\ TouchedNothing(calls'[c])
              /\ (Has(dataSources, name)
                  /\ Get(dataSources, name).type # Expects[toolName].type)
                 => /\ IsErrorEnvelope(calls'[c].response,
                                       Err(Expects[toolName].msg, name))
                    /\ TouchedNothing(calls'[c])]_vars

\* a read_json on a source that is registered as a csv file
C10_KindMismatchHappens ==
    \E c \in CallIds :
        /\ calls[c].tool = "read_json"
        /\ calls[c].args.present
        /\ Has(dataSources, calls[c].args.sourceName)
        /\ Get(dataSources, calls[c].args.sourceName).type = "csv"
        /\ IsErrorEnvelope(calls[c].response,
                           Err("is not a JSON file", calls[c].args.sourceName))

\* the four kinds of the interface table
FourKinds == {"sqlite", "api", "csv", "json"}

\* C11 (as claimed): every descriptor of the registry has one of the four
\* kinds and a config that meets the precondition of its kind, a path for a
\* file-backed kind and a url for api; a register_data_source with another
\* kind value adds no entry.
C11_RegistryKinds ==
    \A i \in DOMAIN dataSources :
        LET d == dataSources[i] IN
        /\ d.type \in FourKinds
        /\ d.config.defined
        /\ d.type \in {"sqlite", "csv", "json"} => d.config.path # NoArg
        /\ d.type = "api" => d.config.url # NoArg

\* C12: a descriptor the registry holds stays in it, under its name and with
\* its kind and config, through every step of every invocation: no entry is
\* removed or replaced, and the set of registered names only grows.
C12_DescriptorsImmutable ==
    [][/\ \A i \in DOMAIN dataSources :
              /\ Has(dataSources', dataSources[i].name)
              /\ Get(dataSources', dataSources[i].name) = dataSources[i]
       /\ {dataSources[i].name : i \in DOMAIN dataSources}
              \subseteq {dataSources'[i].name : i \in DOMAIN dataSources'}
       /\ Len(dataSources') >= Len(dataSources)]_vars

\* two descriptors are registered and a later create_sample_database has
\* written its file
C12_LaterInvocationHappens ==
    \E c \in CallIds :
        /\ Len(dataSources) = 2
        /\ calls[c].tool = "create_sample_database"
        /\ calls[c].response.sent
        /\ ~calls[c].response.isError

\* C13: a read_csv with no limit whose file stream reached the end of the
\* file has returned a result, and the rows of the result are exactly the
\* rows of the file, in file order, that carry for every key of the filter
\* the filter's value, a string equal to the text of the column (a number or
\* a column the file does not have matches no row); with no filter they are
\* all N rows, and rowCount is their number.
C13_FilterKeepsMatchingRows ==
    \A c \in CallIds :
        LET call == calls[c]
            rows == CsvView(files[call.path]).rows
            filter == call.args.filter
            expected ==
                SelectSeq(rows, LAMBDA row :
                    filter = None \/
                    \A key \in DOMAIN filter[1] :
                        /\ key \in DOMAIN row
                        /\ filter[1][key] = [t |-> "string", v |-> row[key]])
        IN (ReadsCsv(call) /\ call.args.limit = None)
           => /\ call.stream = "ended" => (call.response.sent /\ ~call.response.isError)
              /\ (call.response.sent /\ ~call.response.isError)
                 => /\ call.response.text.data = expected
                    /\ call.response.text.rowCount = Len(expected)
                    /\ filter = None => call.response.text.rowCount = Len(rows)

\* a read_csv with a filter on two columns and no limit that returned one
\* row of a file of three
C13_FilterHappens ==
    \E c \in CallIds :
        /\ ReadsCsv(calls[c])
        /\ calls[c].args.limit = None
        /\ calls[c].args.filter # None
        /\ Cardinality(DOMAIN calls[c].args.filter[1]) = 2
        /\ calls[c].response.sent
        /\ ~calls[c].response.isError
        /\ calls[c].response.text.rowCount = 1
        /\ Len(CsvView(files[calls[c].path]).rows) = 3

\* C14 (as claimed): a read_csv whose file stream failed with an I/O error,
\* before its first chunk or between chunks, is rejected with an error that
\* carries the message of the failure, and the caller has the error envelope.
C14_IoFailureRejected ==
    \A c \in CallIds :
        (ReadsCsv(calls[c]) /\ calls[c].stream = "errored")
        => /\ calls[c].outcome.state = "rejected"
           /\ calls[c].response.sent
           /\ calls[c].response.isError
           /\ calls[c].response.text.msg = "Failed to read CSV"

\* C15: a read_csv delivers its outcome at most once.  The response is the
\* envelope of the one outcome the promise took, a result or an error and
\* never both, and once it is delivered no later 'data', 'end' or 'error'
\* event and no destruction of the stream changes the outcome or the
\* response, for as long as the invocation lasts.
C15_SettlesOnce ==
    [][\A c \in CallIds :
           /\ calls'[c].tool = "read_csv"
              => calls'[c].response =
                     IF calls'[c].outcome.state = "pending" THEN NoResponse
                     ELSE Envelope(calls'[c].outcome)
           /\ (/\ calls[c].tool = "read_csv"
               /\ calls[c].outcome.state # "pending"
               /\ calls'[c].pc # "idle")
              => /\ calls'[c].outcome = calls[c].outcome
                 /\ calls'[c].response = calls[c].response]_vars

\* a read_csv that returned its result and whose listener kept a row from a
\* 'data' event that fired afterwards
C15_LateEventHappens ==
    \E c \in CallIds :
        /\ ReadsCsv(calls[c])
        /\ calls[c].response.sent
        /\ ~calls[c].response.isError
        /\ calls[c].response.text.rowCount < Len(calls[c].records)

\* C16: every failure of the HTTP call of fetch_api_data (a non-2xx status,
\* a refused connection, a timeout) becomes an error whose message is the
\* status text of the remote's response when the response has one, and the
\* message of the transport error otherwise; the caller gets it as the error
\* envelope and nothing is left uncaught.
C16_FetchFailureIsEnvelope ==
    [][\A c \in CallIds, reply \in HttpReplies :
           (HttpReplied(c, reply) /\ ~reply.ok)
           => /\ IsErrorEnvelope(calls'[c].response,
                     Err("API request failed",
                         IF reply.statusText \notin {NoArg, ""}
                         THEN reply.statusText ELSE reply.message))
              /\ calls'[c].response.isError
              /\ uncaught' = <<>>]_vars

\* a fetch_api_data that the remote answered with 404 Not Found
C16_StatusTextHappens ==
    \E c \in CallIds :
        /\ calls[c].tool = "fetch_api_data"
        /\ calls[c].requests # <<>>
        /\ IsErrorEnvelope(calls[c].response, Err("API request failed", "Not Found"))

\* C17: the one request a fetch_api_data issues carries a body exactly when
\* a body was supplied and the method is POST or PUT, an omitted method
\* counting as GET, and the body is then the one supplied; its address is the
\* descriptor's url followed by the endpoint, and its headers are the
\* descriptor's configured headers, the empty set of headers when it has none.
C17_RequestBody ==
    [][\A c \in CallIds :
           (/\ Invokes(c, "fetch_api_data")
            /\ calls'[c].args.present
            /\ Has(dataSources, calls'[c].args.sourceName)
            /\ Get(dataSources, calls'[c].args.sourceName).type = "api")
           => LET args == calls'[c].args
                  config == Get(dataSources, args.sourceName).config
                  method == IF args.method = NoArg THEN "GET" ELSE args.method
                  request == calls'[c].requests[1]
              IN /\ Len(calls'[c].requests) = 1
                 /\ request.method = method
                 /\ (request.data # NoArg)
                        <=> (args.body # NoArg /\ method \in {"POST", "PUT"})
                 /\ request.data # NoArg => request.data = args.body
                 /\ request.url = <<config.url, args.endpoint>>
                 /\ request.headers =
                        IF config.headers = NoArg THEN "{}" ELSE config.headers]_vars

\* a DELETE that was given a body, sent without it to a source with
\* configured headers
C17_BodyDroppedHappens ==
    \E c \in CallIds :
        /\ calls[c].tool = "fetch_api_data"
        /\ calls[c].args.present
        /\ calls[c].args.method = "DELETE"
        /\ calls[c].args.body # NoArg
        /\ Len(calls[c].requests) = 1
        /\ calls[c].requests[1].data = NoArg
        /\ calls[c].requests[1].headers = "auth"

\* C18: a transform_data succeeds exactly when sourceName is in the
\* registry, whatever the kind of the descriptor, the operation and the
\* field, and fails with the not-found error otherwise; it ends in its own
\* step without a connection, a request or a file read, leaves the registry
\* and the files alone, and its result is an acknowledgement that echoes
\* operation and field and holds no rows.
C18_TransformIsStub ==
    [][\A c \in CallIds :
           (Invokes(c, "transform_data") /\ calls'[c].args.present)
           => LET args == calls'[c].args
                  response == calls'[c].response
              IN /\ calls'[c].pc = "done"
                 /\ response.sent
                 /\ TouchedNothing(calls'[c])
                 /\ dataSources' = dataSources
                 /\ files' = files
                 /\ ~response.isError <=> Has(dataSources, args.sourceName)
                 /\ response.isError
                        => response.text = Err("not found", args.sourceName)
                 /\ ~response.isError
                        => /\ response.text.operation = args.operation
                           /\ response.text.field = args.field
                           /\ DOMAIN response.text =
                                  {"success", "message", "operation", "field", "note"}]_vars

\* a transform_data with an operation outside the declared four that
\* succeeded on an api source
C18_TransformHappens ==
    \E c \in CallIds :
        /\ calls[c].tool = "transform_data"
        /\ calls[c].args.present
        /\ calls[c].args.operation = "median"
        /\ calls[c].response.sent
        /\ ~calls[c].response.isError
        /\ Has(dataSources, calls[c].args.sourceName)
        /\ Get(dataSources, calls[c].args.sourceName).type = "api"

\* C19: a register_data_source of a name the registry does not have, with
\* one of the four kinds and a config that meets the kind's precondition,
\* adds exactly one entry, the descriptor under its name, and leaves every
\* other entry as it was; its result is a success whose dataSource holds the
\* name, kind and config of the call unchanged.  Every list_data_sources
\* shows each descriptor of the registry with that name, kind and config.
C19_RegistrationAddsOne ==
    [][\A c \in CallIds :
           /\ (/\ Invokes(c, "register_data_source")
               /\ calls'[c].args.present
               /\ ~Has(dataSources, calls'[c].args.name)
               /\ calls'[c].args.type \in FourKinds
               /\ ~InvalidConfig(files, calls'[c].args.type, calls'[c].args.config))
              => LET args == calls'[c].args
                     response == calls'[c].response
                 IN /\ Len(dataSources') = Len(dataSources) + 1
                    /\ \A i \in DOMAIN dataSources : dataSources'[i] = dataSources[i]
                    /\ Get(dataSources', args.name) =
                           [name |-> args.name, type |-> args.type, config |-> args.config]
                    /\ response.sent
                    /\ ~response.isError
                    /\ response.text.success = TRUE
                    /\ response.text.dataSource =
                           [name |-> args.name, type |-> args.type, config |-> args.config]
           /\ Invokes(c, "list_data_sources")
              => /\ calls'[c].response.sent
                 /\ ~calls'[c].response.isError
                 /\ \A i \in DOMAIN dataSources :
                        \E j \in DOMAIN calls'[c].response.text.dataSources :
                            calls'[c].response.text.dataSources[j] = dataSources[i]]_vars

\* the registration of a second descriptor, an api source with configured
\* headers, succeeded
C19_RegistrationHappens ==
    \E c \in CallIds :
        /\ calls[c].tool = "register_data_source"
        /\ calls[c].response.sent
        /\ ~calls[c].response.isError
        /\ Len(dataSources) = 2
        /\ dataSources[2].name = calls[c].args.name
        /\ calls[c].args.type = "api"
        /\ calls[c].args.config.headers = "auth"

\* C20: a list_data_sources returns, in the order of registration, one entry
\* with the name, kind and config of each descriptor of the registry and no
\* other entry, and its count is the number of descriptors in the registry.
C20_ListShowsRegistry ==
    [][\A c \in CallIds :
           Invokes(c, "list_data_sources")
           => LET response == calls'[c].response IN
              /\ calls'[c].pc = "done"
              /\ response.sent
              /\ ~response.isError
              /\ response.text.count = Len(dataSources)
              /\ DOMAIN response.text.dataSources = DOMAIN dataSources
              /\ \A i \in DOMAIN dataSources :
                     response.text.dataSources[i] =
                         [name |-> dataSources[i].name,
                          type |-> dataSources[i].type,
                          config |-> dataSources[i].config]
              /\ dataSources' = dataSources]_vars

\* a list_data_sources that returned two descriptors, "b" registered before
\* "a"
C20_ListHappens ==
    \E c \in CallIds :
        /\ calls[c].tool = "list_data_sources"
        /\ calls[c].response.sent
        /\ ~calls[c].response.isError
        /\ calls[c].response.text.count = 2
        /\ calls[c].response.text.dataSources[1].name = "b"
        /\ calls[c].response.text.dataSources[2].name = "a"

\* the tools that only read
SixReaders ==
    {"list_data_sources", "query_sql", "fetch_api_data", "read_csv", "read_json",
     "transform_data"}

\* C21: the registry changes only in the step of a register_data_source that
\* succeeds.  No step of a list_data_sources, query_sql, fetch_api_data,
\* read_csv, read_json or transform_data changes it, from the arrival of the
\* invocation to its last callback, and no step in which an invocation of
\* any tool gets its error changes it.
C21_RegistryFrame ==
    [][/\ dataSources' # dataSources
          => \E c \in CallIds :
                 /\ Invokes(c, "register_data_source")
                 /\ calls'[c].response.sent
                 /\ ~calls'[c].response.isError
       /\ \A c \in CallIds :
              /\ (calls'[c] # calls[c] /\ calls'[c].tool \in SixReaders)
                 => dataSources' = dataSources
              /\ (/\ ~calls[c].response.sent
                  /\ calls'[c].response.sent
                  /\ calls'[c].response.isError)
                 => dataSources' = dataSources]_vars

\* a register_data_source failed on a registry of one descriptor, for a
\* config that names no existing file
C21_FailedInvocationHappens ==
    \E c \in CallIds :
        /\ Len(dataSources) = 1
        /\ calls[c].tool = "register_data_source"
        /\ calls[c].args.present
        /\ calls[c].args.name # dataSources[1].name
        /\ calls[c].response.sent
        /\ calls[c].response.isError
        /\ calls[c].response.text.msg = "File not found"

RECURSIVE Unjoin(_)
\* the texts of the segments of a written path: the inverse of Join
Unjoin(text) ==
    IF \A i \in DOMAIN text : text[i] # "."
    THEN <<text>>
    ELSE LET dot == CHOOSE i \in DOMAIN text :
                        text[i] = "." /\ \A j \in 1..(i - 1) : text[j] # "."
         IN <<SubSeq(text, 1, dot - 1)>> \o Unjoin(SubSeq(text, dot + 1, Len(text)))

\* the segment a text is written for
IsSegmentText(text) == \E seg \in Segments : SegmentText(seg) = text
SegmentOf(text) == CHOOSE seg \in Segments : SegmentText(seg) = text

\* C22: a read_json with no path returns the whole parsed document; with a
\* path whose every segment hits, it returns the value a left-to-right
\* reference evaluation selects: a field name selects the field, field[i]
\* element i of the array at the field, and the wildcard turns an object into
\* the sequence of its values in order and leaves an array as it is.
C22_PathEvaluation ==
    \A c \in CallIds :
        LET call == calls[c] IN
        ReadsJson(call) =>
            /\ call.args.jsonPath = None
               => /\ call.response.sent
                  /\ ~call.response.isError
                  /\ call.response.text.data = files[call.path].doc
            /\ call.args.jsonPath # None
               => LET text == call.args.jsonPath[1]
                      rooted == Len(text) >= 2 /\ text[1] = "$" /\ text[2] = "."
                      texts == Unjoin(IF rooted THEN SubSeq(text, 3, Len(text)) ELSE text)
                      segs == [i \in DOMAIN texts |-> SegmentOf(texts[i])]
                  IN (/\ \A i \in DOMAIN texts : IsSegmentText(texts[i])
                      /\ Reference(files[call.path].doc, segs).status = "hit")
                     => /\ call.response.sent
                        /\ ~call.response.isError
                        /\ call.response.text.data =
                               Reference(files[call.path].doc, segs).v

\* a read_json of "$.b.*" on {a: null, b: {a: []}}: the values of the object
\* at b, in order
C22_WildcardHappens ==
    \E c \in CallIds :
        /\ ReadsJson(calls[c])
        /\ calls[c].args.jsonPath = Some(<<"$", ".", "b", ".", "*">>)
        /\ calls[c].response.sent
        /\ ~calls[c].response.isError
        /\ calls[c].response.text.data = Arr(<<Arr(<<>>)>>)

\* C23: after create_sample_database created a database at the fresh path
\* new.db and a sqlite descriptor for that path was registered, a query_sql
\* on it that counts the rows of customers and whose connection opened
\* returns rowCount 1 and one row that reports 4 customers; every result of a
\* query_sql has a rowCount equal to the number of rows in its data.
C23_SampleDatabaseEndToEnd ==
    \A c \in CallIds :
        LET call == calls[c] IN
        call.tool = "query_sql" =>
            /\ (call.response.sent /\ ~call.response.isError)
               => call.response.text.rowCount = Len(call.response.text.data)
            /\ (/\ call.path = "new.db"
                /\ call.args.query = "SELECT COUNT(*) AS n FROM customers"
                /\ call.conn \in {"closing", "closed"})
               => /\ call.response.sent
                  /\ ~call.response.isError
                  /\ call.response.text.rowCount = 1
                  /\ call.response.text.data = <<[n |-> 4]>>

\* the count over the customers of the database created at new.db came back
C23_SampleCountHappens ==
    \E c \in CallIds :
        /\ calls[c].tool = "query_sql"
        /\ calls[c].path = "new.db"
        /\ files["new.db"] = SampleDatabase
        /\ Has(dataSources, calls[c].args.sourceName)
        /\ Get(dataSources, calls[c].args.sourceName).type = "sqlite"
        /\ calls[c].response.sent
        /\ ~calls[c].response.isError
        /\ calls[c].response.text.data = <<[n |-> 4]>>

\* the descriptor a register_data_source call asks for
Asked(call) ==
    [name |-> call.args.name, type |-> call.args.type, config |-> call.args.config]

\* a finished register_data_source, by its outcome
Registered(call) ==
    call.tool = "register_data_source" /\ call.response.sent /\ ~call.response.isError
Refused(call) ==
    /\ call.tool = "register_data_source"
    /\ IsErrorEnvelope(call.response, Err("already exists", call.args.name))

\* C24: of the register_data_source invocations of several callers, with
\* valid configs and in any interleaving, each one with a name the registry
\* does not have succeeds and each one with a name it has fails with the
\* duplicate-name error; the registry holds the descriptor of every
\* invocation that succeeded, so invocations with distinct names that
\* succeeded are all in it, and of two invocations with the same name at
\* most one has succeeded and the registry holds the descriptor of that one.
C24_ConcurrentRegistration ==
    [][\A c \in CallIds :
           /\ Invokes(c, "register_data_source")
              => /\ calls'[c].pc = "done"
                 /\ IF Has(dataSources, calls'[c].args.name)
                    THEN Refused(calls'[c])
                    ELSE Registered(calls'[c])
           /\ Registered(calls'[c])
              => /\ Has(dataSources', calls'[c].args.name)
                 /\ Get(dataSources', calls'[c].args.name) = Asked(calls'[c])
           /\ \A d \in CallIds \ {c} :
                  (/\ calls'[c].tool = "register_data_source"
                   /\ calls'[d].tool = "register_data_source"
                   /\ calls'[c].args.name = calls'[d].args.name)
                  => ~(Registered(calls'[c]) /\ Registered(calls'[d]))]_vars

\* two callers asked for the same name with different kinds: one holds its
\* success, the other the duplicate-name error
C24_SameNameHappens ==
    \E c \in CallIds, d \in CallIds :
        /\ c # d
        /\ Registered(calls[c])
        /\ Refused(calls[d])
        /\ calls[c].args.name = calls[d].args.name
        /\ calls[c].args.type # calls[d].args.type

\* C25 (as claimed): every read_csv on a registered csv source that has
\* opened its file stream eventually delivers a result or an error to the
\* caller, also when the limit is reached and the stream is destroyed before
\* the end of the file.
C25_ReadCsvTerminates ==
    \A c \in CallIds : (calls[c].pc = "csv_read") ~> calls[c].response.sent

\* the same for the reads without a limit, whose stream is never destroyed
ReadCsvWithoutLimitTerminates ==
    \A c \in CallIds :
        (calls[c].pc = "csv_read" /\ calls[c].args.limit = None)
            ~> calls[c].response.sent

\* C27 (as claimed): a read_csv with limit 0 on a file of at least one row
\* that returned a result returned no row: rowCount is 0.
C27_LimitZero ==
    \A c \in CallIds :
        LET call == calls[c] IN
        (/\ ReadsCsv(call)
         /\ call.args.limit = Some(0)
         /\ Len(CsvView(files[call.path]).rows) >= 1
         /\ call.response.sent
         /\ ~call.response.isError)
        => /\ call.response.text.rowCount = 0
           /\ call.response.text.data = <<>>

\* each query_sql has a connection of its own: a step of one invocation
\* leaves the connection of every other invocation as it was, an invocation
\* runs at most one query and closes at most once, never runs a query or
\* closes before it has constructed its Database, and when its last callback
\* has run on a connection that opened it has run one query, closed once and
\* the connection is closed
ConnectionOfItsOwn ==
    \A c \in CallIds :
        /\ \A d \in CallIds \ {c} :
               calls'[c] # calls[c]
               => /\ calls'[d].conn = calls[d].conn
                  /\ calls'[d].queries = calls[d].queries
                  /\ calls'[d].closes = calls[d].closes
        /\ calls'[c].tool = "query_sql"
           => /\ calls'[c].queries <= 1
              /\ calls'[c].closes <= 1
              /\ calls'[c].conn = "none"
                     => (calls'[c].queries = 0 /\ calls'[c].closes = 0)
              /\ (calls'[c].pc = "done" /\ calls'[c].conn \notin {"none", "failed"})
                     => /\ calls'[c].queries = 1
                        /\ calls'[c].closes = 1
                        /\ calls'[c].conn = "closed"
        /\ (calls[c].tool = "query_sql" /\ calls'[c].tool = "query_sql")
           => (calls[c].conn \in {"closing", "closed", "failed"}
               => calls'[c].conn \notin {"opening", "open"})

\* every invocation in flight has finished: the caller has its response
AllFinished == \A c \in CallIds : calls[c].pc = "idle" \/ calls[c].response.sent

\* C26 (as claimed): in every interleaving of concurrent query_sql
\* invocations each invocation has a connection of its own, on which it runs
\* one query and which it closes once, and once all invocations have
\* finished no connection remains open.
C26_ConnectionOwnership ==
    [][/\ ConnectionOfItsOwn
       /\ AllFinished'
          => \A c \in CallIds : calls'[c].conn \notin {"opening", "open", "closing"}]_vars

\* the part of C26 that is about ownership
C26_Ownership == [][ConnectionOfItsOwn]_vars

\* two query_sql on the same source, one with its connection open and the
\* other with its connection closed
C26_TwoConnectionsHappen ==
    \E c \in CallIds, d \in CallIds :
        /\ calls[c].tool = "query_sql"
        /\ calls[d].tool = "query_sql"
        /\ calls[c].args.sourceName = calls[d].args.sourceName
        /\ calls[c].conn = "open"
        /\ calls[d].conn = "closed"

\* the tools that read and leave no trace
FourIndependent == {"list_data_sources", "read_csv", "read_json", "transform_data"}

\* C28: with the registry and the files unchanged, two invocations of
\* list_data_sources, read_csv, read_json or transform_data with the same
\* arguments that have both returned have returned the same outcome,
\* whatever the two callers invoked before and in between, and whatever the
\* other invocation was doing while each of them ran.
C28_SameArgumentsSameOutcome ==
    \A c \in CallIds, d \in CallIds :
        (/\ calls[c].tool \in FourIndependent
         /\ calls[d].tool = calls[c].tool
         /\ calls[d].args = calls[c].args
         /\ calls[c].response.sent
         /\ calls[d].response.sent)
        => /\ calls[c].response = calls[d].response
           /\ calls[c].outcome = calls[d].outcome

\* two read_csv with the same filter that both returned their rows
C28_TwoReadsHappen ==
    \E c \in CallIds, d \in CallIds :
        /\ c # d
        /\ calls[c].tool = "read_csv"
        /\ calls[d].tool = "read_csv"
        /\ calls[c].args = calls[d].args
        /\ calls[c].args.filter # None
        /\ calls[c].response.sent
        /\ calls[d].response.sent
        /\ ~calls[c].response.isError
        /\ calls[c].response.text.rowCount = 2

\* C29: an invocation of query_sql constructs at most one connection and
\* runs at most one query, an invocation of fetch_api_data sends at most one
\* request and an invocation of read_csv opens at most one file stream: a
\* connection or a stream that was opened is not opened again.  Once the
\* invocation has its failure it runs no query, sends no request, reads no
\* file and opens nothing any more.
C29_NoRetry ==
    [][\A c \in CallIds :
           /\ calls'[c].queries <= 1
           /\ Len(calls'[c].requests) <= 1
           /\ calls'[c].fileReads <= 1
           /\ calls'[c].conn = "opening" => calls[c].conn \in {"none", "opening"}
           /\ calls'[c].stream = "open" => calls[c].stream \in {"none", "open"}
           /\ (/\ calls[c].response.sent
               /\ calls[c].response.isError
               /\ calls'[c].pc # "idle")
              => /\ calls'[c].queries = calls[c].queries
                 /\ calls'[c].requests = calls[c].requests
                 /\ calls'[c].fileReads = calls[c].fileReads
                 /\ calls'[c].pos = calls[c].pos
                 /\ calls'[c].conn \notin {"opening", "open"}
                 /\ calls'[c].stream # "open"
                 /\ calls'[c].response = calls[c].response]_vars

\* a fetch_api_data that ended with a refused connection after one request
C29_FailureHappens ==
    \E c \in CallIds :
        /\ calls[c].tool = "fetch_api_data"
        /\ calls[c].pc = "done"
        /\ Len(calls[c].requests) = 1
        /\ IsErrorEnvelope(calls[c].response,
                           Err("API request failed", "connect ECONNREFUSED"))

\* C30 (as claimed): the collection holds an item for every create_request
\* that has reported success, also when the reads and writes of two
\* invocations interleave.
C30_EveryRequestKept ==
    \A c \in CallIds :
        (postman.calls[c].response.sent /\ ~postman.calls[c].response.isError)
        => \E i \in DOMAIN Items(postman.collection) :
               Items(postman.collection)[i] = NewRequest(postman.calls[c].args)

\* a create_request whose read and write no other write falls between adds
\* its item to the collection it read and keeps every item of it
CreateRequestAlone ==
    [][\A c \in CallIds :
           (/\ postman.calls[c].pc = "put_wait"
            /\ postman'.calls[c].pc = "done"
            /\ ~postman'.calls[c].response.isError
            /\ postman.calls[c].collection =
                   Some(PushItem(postman.collection, NewRequest(postman.calls[c].args))))
           => Items(postman'.collection) =
                  Items(postman.collection) \o <<NewRequest(postman.calls[c].args)>>]_vars

====
